---- MODULE Spec2Model ----
(***************************************************************************)
(* ipv6domains: IPv6 readiness tester for DNS domains.                     *)
(*                                                                         *)
(* Four specifications over one set of variables:                          *)
(*   Spec         main with one domain name: QueryDomain, one DNS lookup   *)
(*                per step, and main's report in the step that returns;    *)
(*   SpecCheckDom the same for one call of checkDom in each mode;          *)
(*   SpecPair     main with a name and "www." + that name, resolved in     *)
(*                turn against one DNS state;                              *)
(*   SpecBatch    scanFile: the producer, the buffered channel and the     *)
(*                pool of workers that call checkDom.                      *)
(* The DNS is the environment: every lookup draws its answer from a small  *)
(* set of answers (addresses or an error).                                 *)
(***************************************************************************)
EXTENDS Integers, Sequences, FiniteSets, TLC

VARIABLES
    caller,     \* "main" | "checkDom" | "scanFile": who runs
    mode,       \* the -check mode handed to checkDom
    verbose,    \* the -v flag of main
    dom,        \* the argument of QueryDomain (main's s, checkDom's dom)
    pc,         \* position in QueryDomain
    domain,     \* QueryDomain's domain after TrimPrefix
    r,          \* QueryDomain's Result under construction
    err,        \* QueryDomain's err: the last lookup's error
    nss,        \* the name servers LookupNS returned
    mxs,        \* the mail exchangers LookupMX returned
    idx,        \* position of the running range loop over nss / mxs
    lookups,    \* history: the lookups made so far, in order
    ret,        \* what QueryDomain returned: [r |-> <<>> or <<Result>>, err]
    out,        \* the lines printed on standard output
    lines,      \* scanFile: the lines of the input file
    numjobs,    \* scanFile: the size of the pool
    spc,        \* scanFile: position of the function
    wn,         \* scanFile: the counter w of the loop that starts the workers
    scanned,    \* scanFile: how many lines scan.Scan() has read
    stext,      \* scanFile: s, the line read and not yet sent, <<>> if none
    domains,    \* scanFile: the buffer of the channel
    closed,     \* scanFile: the channel is closed
    wg,         \* scanFile: the counter of the WaitGroup
    wpc,        \* per worker: "none", "range", "check" or "exited"
    wdom,       \* per worker: the line it took from the channel, <<>> if none
    log,        \* history: the calls of checkDom, [n, worker, ok], in order
    prev        \* history: <<>>, or <<[dom, ret, lookups]>> of main's first argument

qvars == <<caller, mode, verbose, dom, pc, domain, r, err, nss, mxs, idx,
           lookups, ret>>
bvars == <<lines, numjobs, spc, wn, scanned, stext, domains, closed, wg, wpc, wdom, log>>
vars == <<qvars, out, bvars, prev>>

-----------------------------------------------------------------------------
(* Bounds *)

MaxNS == 2      \* most name servers a LookupNS answer holds
MaxMX == 2      \* most mail exchangers a LookupMX answer holds
MaxLines == 3   \* most lines of the input file
MaxJobs == 2    \* largest pool
MaxPairRecs == 1  \* most records of an answer when two names are resolved in turn

-----------------------------------------------------------------------------
(* Strings: byte-wise order, as Go compares strings *)

\* The bytes of the address strings the model uses.
Bytes(s) ==
    CASE s = "10.0.0.1"    -> <<49, 48, 46, 48, 46, 48, 46, 49>>
      [] s = "192.0.2.1"   -> <<49, 57, 50, 46, 48, 46, 50, 46, 49>>
      [] s = "2001:db8::1" -> <<50, 48, 48, 49, 58, 100, 98, 56, 58, 58, 49>>
      [] s = "2001:db8::2" -> <<50, 48, 48, 49, 58, 100, 98, 56, 58, 58, 50>>
      [] s = "2001:DB8::2" -> <<50, 48, 48, 49, 58, 68, 66, 56, 58, 58, 50>>
      [] s = "invalid IP"  -> <<105, 110, 118, 97, 108, 105, 100, 32, 73, 80>>
      [] OTHER             -> <<>>

RECURSIVE BytesLess(_, _)
BytesLess(x, y) ==
    IF y = <<>> THEN FALSE
    ELSE IF x = <<>> THEN TRUE
    ELSE IF Head(x) < Head(y) THEN TRUE
    ELSE IF Head(x) > Head(y) THEN FALSE
    ELSE BytesLess(Tail(x), Tail(y))

\* a < b on Go strings
StrLess(a, b) == BytesLess(Bytes(a), Bytes(b))

RECURSIVE InsertSorted(_, _)
InsertSorted(x, s) ==
    IF s = <<>> THEN <<x>>
    ELSE IF StrLess(Head(s), x) THEN <<Head(s)>> \o InsertSorted(x, Tail(s))
    ELSE <<x>> \o s

\* A faulty variant of SortStrings: the list is left as it was appended.
SortStringsUnsorted(s) == s

RECURSIVE SortStrings(_)
\* sort.Strings: ascending byte-wise order
SortStrings(s) ==
    IF s = <<>> THEN <<>>
    ELSE InsertSorted(Head(s), SortStrings(Tail(s)))

\* A faulty variant of TrimPrefix: the name is kept as it was given.
TrimPrefixKeeps(d) == d

\* strings.TrimPrefix(domain, "www."), a name being its sequence of labels
TrimPrefix(d) ==
    IF Len(d) >= 2 /\ Head(d) = "www" THEN Tail(d) ELSE d

\* "www." + domain
WWW(d) == <<"www">> \o d

\* strings.Repeat(s, n), a string being its sequence of characters
RECURSIVE Repeat(_, _)
Repeat(c, n) == IF n <= 0 THEN <<>> ELSE <<c>> \o Repeat(c, n - 1)

-----------------------------------------------------------------------------
(* Errors *)

NoError == [typ |-> "nil", IsNotFound |-> FALSE, msg |-> "", cause |-> ""]

\* *net.DNSError with IsNotFound set: the name does not exist
ErrNotFound ==
    [typ |-> "DNSError", IsNotFound |-> TRUE, msg |-> "no such host", cause |-> ""]
\* *net.DNSError without IsNotFound: a timeout, a server failure
ErrTimeout ==
    [typ |-> "DNSError", IsNotFound |-> FALSE, msg |-> "i/o timeout", cause |-> ""]
\* an error that is no *net.DNSError
ErrOther ==
    [typ |-> "error", IsNotFound |-> FALSE, msg |-> "operation was canceled", cause |-> ""]

LookupErrors == {ErrNotFound, ErrTimeout, ErrOther}

\* A faulty variant of isNotfound: every DNS error counts as "not found".
isNotfoundAnyDNS(e) == e.typ = "DNSError"

\* check if given error is the DNS IsNotFound error
isNotfound(e) ==
    IF e.typ = "DNSError" THEN e.IsNotFound ELSE FALSE

\* fmt.Errorf(msg + ": %v", cause); cause NoError for a message without verb
Errorf(msg, e) ==
    [typ |-> "errorString", IsNotFound |-> FALSE, msg |-> msg, cause |-> e.msg]

-----------------------------------------------------------------------------
(* Addresses *)

\* netip.ParseAddr(h) and the three methods QueryHost uses on the result.
\* A string that does not parse gives the zero Addr: neither Is4 nor Is6.
ParseAddr(h) ==
    CASE h = "10.0.0.1"    -> [Is4 |-> TRUE,  Is6 |-> FALSE, String |-> "10.0.0.1"]
      [] h = "192.0.2.1"   -> [Is4 |-> TRUE,  Is6 |-> FALSE, String |-> "192.0.2.1"]
      [] h = "2001:db8::1" -> [Is4 |-> FALSE, Is6 |-> TRUE,  String |-> "2001:db8::1"]
      [] h = "2001:DB8::2" -> [Is4 |-> FALSE, Is6 |-> TRUE,  String |-> "2001:db8::2"]
      [] OTHER             -> [Is4 |-> FALSE, Is6 |-> FALSE, String |-> "invalid IP"]

\* The address lists net.LookupHost answers with when it succeeds (a name without
\* any address is the "not found" error, never an empty list): one IPv4 address,
\* one IPv6 address, and an unsorted mix with an upper-case spelling and a string
\* that is no address.
HostAnswers ==
    { <<"192.0.2.1">>,
      <<"2001:db8::1">>,
      <<"192.0.2.1", "2001:DB8::2", "not-an-address", "10.0.0.1">> }

\* What net.LookupHost returns: (addrs, err)
LookupHost ==
    { [addrs |-> a, err |-> NoError] : a \in HostAnswers }
    \cup { [addrs |-> <<>>, err |-> e] : e \in LookupErrors }

\* the range loop of QueryHost over addrs
RECURSIVE Classify(_, _, _)
Classify(addrs, ipv4, ipv6) ==
    IF addrs = <<>> THEN [ipv4 |-> ipv4, ipv6 |-> ipv6]
    ELSE LET a == ParseAddr(Head(addrs))
         IN  Classify(Tail(addrs),
                 IF a.Is4 THEN Append(ipv4, a.String) ELSE ipv4,
                 IF a.Is6 THEN Append(ipv6, a.String) ELSE ipv6)

\* QueryHost, given what net.LookupHost(host) returned
QueryHost(ans) ==
    IF ans.err # NoError
    THEN [ipv4 |-> <<>>, ipv6 |-> <<>>, err |-> ans.err]
    ELSE LET c == Classify(ans.addrs, <<>>, <<>>)
         IN  [ipv4 |-> c.ipv4, ipv6 |-> c.ipv6, err |-> NoError]

-----------------------------------------------------------------------------
(* Result, Rank and the reports *)

\* Result{Domain: domain}
NewResult(d) ==
    [Domain |-> d, Host4 |-> <<>>, Host6 |-> <<>>, NS4 |-> <<>>, NS6 |-> <<>>,
     DNS6Only |-> FALSE, MX4 |-> <<>>, MX6 |-> <<>>, WWW4 |-> <<>>, WWW6 |-> <<>>]

\* "sort all lists" at the end of QueryDomain
SortAll(rr) ==
    [rr EXCEPT !.Host4 = SortStrings(@), !.Host6 = SortStrings(@),
               !.WWW4 = SortStrings(@),  !.WWW6 = SortStrings(@),
               !.NS4 = SortStrings(@),   !.NS6 = SortStrings(@),
               !.MX4 = SortStrings(@),   !.MX6 = SortStrings(@)]

\* A nil *Result is <<>>, a non-nil one <<Result>>.
NilResult == <<>>

Sentinel == <<"?", "?", "?", "?", "?">>

\* A faulty variant of Rank: IPv6 name servers count one star, not two.
RankNSOne(p) ==
    IF p = NilResult THEN Sentinel
    ELSE LET x == p[1]
             s1 == IF Len(x.Host6) > 0 THEN 1 ELSE 0
             s2 == IF Len(x.MX4) > 0 /\ Len(x.MX6) > 0 THEN 1 ELSE 0
             s3 == IF Len(x.WWW4) > 0 /\ Len(x.WWW6) > 0 THEN 1 ELSE 0
             s4 == IF Len(x.NS6) > 0 THEN 1 ELSE 0
         IN  Repeat("*", s1 + s2 + s3 + s4)

\* A faulty variant of Rank: a record that meets no condition renders as the sentinel.
RankZeroAsSentinel(p) ==
    IF p = NilResult THEN Sentinel
    ELSE LET x == p[1]
             s1 == IF Len(x.Host6) > 0 THEN 1 ELSE 0
             s2 == IF Len(x.MX4) > 0 /\ Len(x.MX6) > 0 THEN 1 ELSE 0
             s3 == IF Len(x.WWW4) > 0 /\ Len(x.WWW6) > 0 THEN 1 ELSE 0
             s4 == IF Len(x.NS6) > 0 THEN 2 ELSE 0
         IN  IF s1 + s2 + s3 + s4 = 0 THEN Sentinel
             ELSE Repeat("*", s1 + s2 + s3 + s4)

Rank(p) ==
    IF p = NilResult THEN Sentinel
    ELSE LET x == p[1]
             s1 == IF Len(x.Host6) > 0 THEN 1 ELSE 0
             s2 == IF Len(x.MX4) > 0 /\ Len(x.MX6) > 0 THEN 1 ELSE 0
             s3 == IF Len(x.WWW4) > 0 /\ Len(x.WWW6) > 0 THEN 1 ELSE 0
             s4 == IF Len(x.NS6) > 0 THEN 2 ELSE 0
         IN  Repeat("*", s1 + s2 + s3 + s4)

\* One printed line: the format of the Printf call and its arguments.
Line(f, a) == [fmt |-> f, args |-> a]

AddrLines(s) == [k \in 1..Len(s) |-> Line("  %s", <<s[k]>>)]

\* (r *Result) Display()
Display(x) ==
    <<Line("result for %s:", <<x.Domain>>)>>
    \o <<Line("IPv4:", <<>>)>> \o AddrLines(x.Host4)
    \o <<Line("IPv6:", <<>>)>> \o AddrLines(x.Host6)
    \o <<Line("wwww IPv4:", <<>>)>> \o AddrLines(x.WWW4)
    \o <<Line("wwww IPv6:", <<>>)>> \o AddrLines(x.WWW6)
    \o <<Line("DNS Servers IPv4:", <<>>)>> \o AddrLines(x.NS4)
    \o <<Line("DNS Servers IPv6:", <<>>)>> \o AddrLines(x.NS6)
    \o <<Line("Mail exchangers IPv4:", <<>>)>> \o AddrLines(x.MX4)
    \o <<Line("Mail exchangers IPv6:", <<>>)>> \o AddrLines(x.MX6)

\* The body of main's loop after QueryDomain(s) returned q.
mainReport(s, v, q) ==
    IF q.err # NoError
    THEN <<Line("%s: error %s", <<s, q.err>>)>>
    ELSE (IF v THEN Display(q.r[1]) ELSE <<>>)
         \o <<Line("%s : %s", <<q.r[1].Domain, Rank(q.r)>>)>>

\* A faulty variant of checkDom: mode 1 is not kept out of the counts.
checkDomCountsInModeOne(d, m, q) ==
    IF q.err # NoError
    THEN <<Line("%s, (%s)", <<d, q.err>>)>>
    ELSE LET x == q.r[1]
             ip4 == Len(x.Host4) + Len(x.WWW4) > 0
             ip6 == Len(x.Host6) + Len(x.WWW6) > 0
         IN  IF m # 4 /\ m # 6
             THEN <<Line("%s, %d, %d, %d, %d",
                         <<x.Domain, Len(x.Host4), Len(x.WWW4),
                           Len(x.Host6), Len(x.WWW6)>>)>>
             ELSE IF m = 6 /\ ip6 /\ ~ip4 THEN <<Line("%s", <<x.Domain>>)>>
             ELSE IF m = 4 /\ ~ip6 /\ ip4 THEN <<Line("%s", <<x.Domain>>)>>
             ELSE <<>>

\* A faulty variant of checkDom: the counts are printed apex first, www last.
checkDomCountsByName(d, m, q) ==
    IF q.err # NoError
    THEN <<Line("%s, (%s)", <<d, q.err>>)>>
    ELSE LET x == q.r[1]
             ip4 == Len(x.Host4) + Len(x.WWW4) > 0
             ip6 == Len(x.Host6) + Len(x.WWW6) > 0
         IN  IF m # 4 /\ m # 6 /\ m # 1
             THEN <<Line("%s, %d, %d, %d, %d",
                         <<x.Domain, Len(x.Host4), Len(x.Host6),
                           Len(x.WWW4), Len(x.WWW6)>>)>>
             ELSE IF m = 6 /\ ip6 /\ ~ip4 THEN <<Line("%s", <<x.Domain>>)>>
             ELSE IF m = 4 /\ ~ip6 /\ ip4 THEN <<Line("%s", <<x.Domain>>)>>
             ELSE <<>>

\* checkDom after QueryDomain(dom) returned q: the lines it prints.
checkDom(d, m, q) ==
    IF q.err # NoError
    THEN <<Line("%s, (%s)", <<d, q.err>>)>>
    ELSE LET x == q.r[1]
             ip4 == Len(x.Host4) + Len(x.WWW4) > 0
             ip6 == Len(x.Host6) + Len(x.WWW6) > 0
         IN  IF m # 4 /\ m # 6 /\ m # 1
             THEN <<Line("%s, %d, %d, %d, %d",
                         <<x.Domain, Len(x.Host4), Len(x.WWW4),
                           Len(x.Host6), Len(x.WWW6)>>)>>
             ELSE IF m = 6 /\ ip6 /\ ~ip4 THEN <<Line("%s", <<x.Domain>>)>>
             ELSE IF m = 4 /\ ~ip6 /\ ip4 THEN <<Line("%s", <<x.Domain>>)>>
             ELSE <<>>

-----------------------------------------------------------------------------
(* QueryDomain, one lookup per step *)

\* A faulty variant of Fatal: a failed lookup never aborts.
FatalNever(e) == FALSE

\* err != nil && !isNotfound(err): the lookup failed and is not tolerated
Fatal(e) == e # NoError /\ ~isNotfound(e)

\* A faulty variant of NSHostFails: "not found" is tolerated for a name server as well.
NSHostFailsTolerant(e) == e # NoError /\ ~isNotfound(e)

\* err != nil in the loop over nss: any failure aborts
NSHostFails(e) == e # NoError

\* A faulty variant of MXHostFails: any failure of an exchanger is tolerated.
MXHostFailsNever(e) == FALSE

\* err != nil && !isNotfound(err) in the loop over mxs
MXHostFails(e) == e # NoError /\ ~isNotfound(e)

\* A faulty variant of NoNS: an empty list of name servers is accepted.
NoNSNever(s) == FALSE

\* len(nss) == 0
NoNS(s) == Len(s) = 0

\* append(r.NS4, ns4...) and its like
AppendAddrs(l, a) == l \o a

\* History: one lookup, what the resolver answered and what QueryHost made of it.
HostLookup(op, name, ans, h) ==
    [op |-> op, name |-> name, err |-> ans.err, addrs |-> ans.addrs,
     ipv4 |-> h.ipv4, ipv6 |-> h.ipv6]

RecordLookup(op, name, ans) ==
    [op |-> op, name |-> name, err |-> ans.err, addrs |-> ans.recs,
     ipv4 |-> <<>>, ipv6 |-> <<>>]

\* The domain names given on the command line or read from the input.
Domains ==
    { <<"example", "com">>, <<"www", "example", "com">> }

\* The values of -check the batch is run with (0 stands for any other value).
Modes == {4, 6, 1, 0}

\* scanFile does not run.
NoBatch ==
    /\ lines = <<>>
    /\ numjobs = 0
    /\ spc = "none"
    /\ wn = 0
    /\ scanned = 0
    /\ stext = <<>>
    /\ domains = <<>>
    /\ closed = FALSE
    /\ wg = 0
    /\ wpc = <<>>
    /\ wdom = <<>>
    /\ log = <<>>

\* The state QueryDomain starts in.
InitQuery ==
    /\ dom \in Domains
    /\ pc = "call"
    /\ domain = <<>>
    /\ r = NewResult(<<>>)
    /\ err = NoError
    /\ nss = <<>>
    /\ mxs = <<>>
    /\ idx = 0
    /\ lookups = <<>>
    /\ ret = [r |-> NilResult, err |-> NoError]
    /\ out = <<>>
    /\ prev = <<>>
    /\ NoBatch

\* main is run with one domain name as its argument.
Init ==
    /\ caller = "main"
    /\ mode = 0
    /\ verbose \in BOOLEAN
    /\ InitQuery

\* checkDom is called with a domain name and a mode.
InitCheckDom ==
    /\ caller = "checkDom"
    /\ mode \in Modes
    /\ verbose = FALSE
    /\ InitQuery

\* return p, e: QueryDomain returns and the caller reports in the same step.
Return(p, e) ==
    LET q == [r |-> p, err |-> e]
    IN  /\ ret' = q
        /\ pc' = "done"
        /\ out' = out \o (IF caller = "main" THEN mainReport(dom, verbose, q)
                          ELSE checkDom(dom, mode, q))

\* return &r, nil after "sort all lists"
ReturnSorted(rr) ==
    /\ r' = SortAll(rr)
    /\ Return(<<SortAll(rr)>>, NoError)

\* domain = strings.TrimPrefix(domain, "www."); r := Result{Domain: domain}
QueryDomainEnter ==
    /\ pc = "call"
    /\ domain' = TrimPrefix(dom)
    /\ r' = NewResult(TrimPrefix(dom))
    /\ err' = NoError
    /\ pc' = "host"
    /\ UNCHANGED <<caller, mode, verbose, dom, nss, mxs, idx, lookups, ret, out>>

\* r.Host4, r.Host6, err = QueryHost(domain)
QueryDomainHost ==
    /\ pc = "host"
    /\ \E ans \in LookupHost :
          LET h == QueryHost(ans)
              rr == [r EXCEPT !.Host4 = h.ipv4, !.Host6 = h.ipv6]
          IN  /\ err' = h.err
              /\ lookups' = Append(lookups, HostLookup("host", domain, ans, h))
              /\ r' = rr
              /\ IF Fatal(h.err)
                 THEN Return(NilResult, Errorf("QueryHost failed", h.err))
                 ELSE /\ pc' = "www"
                      /\ UNCHANGED <<ret, out>>
    /\ UNCHANGED <<caller, mode, verbose, dom, domain, nss, mxs, idx>>

\* r.WWW4, r.WWW6, err = QueryHost("www." + domain)
QueryDomainWWW ==
    /\ pc = "www"
    /\ \E ans \in LookupHost :
          LET h == QueryHost(ans)
              rr == [r EXCEPT !.WWW4 = h.ipv4, !.WWW6 = h.ipv6]
          IN  /\ err' = h.err
              /\ lookups' = Append(lookups, HostLookup("www", WWW(domain), ans, h))
              /\ r' = rr
              /\ IF Fatal(h.err)
                 THEN Return(NilResult, Errorf("QueryHost (www) failed", h.err))
                 ELSE /\ pc' = "ns"
                      /\ UNCHANGED <<ret, out>>
    /\ UNCHANGED <<caller, mode, verbose, dom, domain, nss, mxs, idx>>

\* The i-th name server / mail exchanger of an answer: its host name.
Servers(kind, n) == [k \in 1..n |-> <<kind, k>>]

\* What net.LookupNS / net.LookupMX returns: (records, err). A failure other than
\* "not found" may come with the records that were well-formed.
LookupRecords(kind, max) ==
    { [recs |-> Servers(kind, n), err |-> NoError] : n \in 0..max }
    \cup { [recs |-> <<>>, err |-> ErrNotFound] }
    \cup { [recs |-> Servers(kind, n), err |-> e] :
              n \in 0..max, e \in {ErrTimeout, ErrOther} }

\* nss, err := net.LookupNS(domain), and the check for no name server
QueryDomainNS ==
    /\ pc = "ns"
    /\ \E ans \in LookupRecords("ns", MaxNS) :
          /\ nss' = ans.recs
          /\ err' = ans.err
          /\ lookups' = Append(lookups, RecordLookup("LookupNS", domain, ans))
          /\ IF Fatal(ans.err)
             THEN Return(NilResult, Errorf("LookupNS failed", ans.err))
             ELSE IF NoNS(ans.recs)
             THEN Return(NilResult, Errorf("LookupNS failed: domain has no NS", NoError))
             ELSE /\ pc' = "nshost"
                  /\ UNCHANGED <<ret, out>>
    /\ idx' = 1
    /\ UNCHANGED <<caller, mode, verbose, dom, domain, r, mxs>>

\* one turn of "for _, ns := range nss"
QueryDomainNSHost ==
    /\ pc = "nshost"
    /\ idx <= Len(nss)
    /\ \E ans \in LookupHost :
          LET h == QueryHost(ans)
          IN  /\ lookups' = Append(lookups, HostLookup("nshost", nss[idx], ans, h))
              /\ IF NSHostFails(h.err)
                 THEN /\ Return(NilResult, Errorf("QueryHost for NS failed", h.err))
                      /\ UNCHANGED <<r, idx>>
                 ELSE /\ r' = [r EXCEPT !.NS4 = AppendAddrs(@, h.ipv4),
                                      !.NS6 = AppendAddrs(@, h.ipv6)]
                      /\ idx' = idx + 1
                      /\ pc' = IF idx = Len(nss) THEN "mx" ELSE "nshost"
                      /\ UNCHANGED <<ret, out>>
    /\ UNCHANGED <<caller, mode, verbose, dom, domain, err, nss, mxs>>

\* mxs, err := net.LookupMX(domain); with no exchanger the lists are sorted and
\* the record returned
QueryDomainMX ==
    /\ pc = "mx"
    /\ \E ans \in LookupRecords("mx", MaxMX) :
          /\ mxs' = ans.recs
          /\ err' = ans.err
          /\ lookups' = Append(lookups, RecordLookup("LookupMX", domain, ans))
          /\ IF Fatal(ans.err)
             THEN /\ Return(NilResult, Errorf("LookupMX failed", ans.err))
                  /\ UNCHANGED r
             ELSE IF Len(ans.recs) = 0
             THEN ReturnSorted(r)
             ELSE /\ pc' = "mxhost"
                  /\ UNCHANGED <<r, ret, out>>
    /\ idx' = 1
    /\ UNCHANGED <<caller, mode, verbose, dom, domain, nss>>

\* one turn of "for _, mx := range mxs"; after the last one the lists are sorted
\* and the record returned
QueryDomainMXHost ==
    /\ pc = "mxhost"
    /\ idx <= Len(mxs)
    /\ \E ans \in LookupHost :
          LET h == QueryHost(ans)
              rr == [r EXCEPT !.MX4 = AppendAddrs(@, h.ipv4),
                                  !.MX6 = AppendAddrs(@, h.ipv6)]
          IN  /\ lookups' = Append(lookups, HostLookup("mxhost", mxs[idx], ans, h))
              /\ IF MXHostFails(h.err)
                 THEN /\ Return(NilResult, Errorf("QueryHost for MX failed", h.err))
                      /\ UNCHANGED <<r, idx>>
                 ELSE /\ idx' = idx + 1
                      /\ IF idx = Len(mxs)
                         THEN ReturnSorted(rr)
                         ELSE /\ r' = rr
                              /\ pc' = "mxhost"
                              /\ UNCHANGED <<ret, out>>
    /\ UNCHANGED <<caller, mode, verbose, dom, domain, err, nss, mxs>>

Next ==
    \/ QueryDomainEnter /\ UNCHANGED <<bvars, prev>>
    \/ QueryDomainHost /\ UNCHANGED <<bvars, prev>>
    \/ QueryDomainWWW /\ UNCHANGED <<bvars, prev>>
    \/ QueryDomainNS /\ UNCHANGED <<bvars, prev>>
    \/ QueryDomainNSHost /\ UNCHANGED <<bvars, prev>>
    \/ QueryDomainMX /\ UNCHANGED <<bvars, prev>>
    \/ QueryDomainMXHost /\ UNCHANGED <<bvars, prev>>

\* One domain name given to main.
Spec == Init /\ [][Next]_vars

\* One call of checkDom.
SpecCheckDom == InitCheckDom /\ [][Next]_vars

-----------------------------------------------------------------------------
(* Two names given to main, resolved in turn against one DNS state *)

\* main is run with two arguments, a name and "www." + that name.
InitPair ==
    /\ caller = "main"
    /\ mode = 0
    /\ verbose = FALSE
    /\ InitQuery

\* The next turn of "for _, domain := range flag.Args()": QueryDomain is called
\* on the second argument, with fresh locals.
mainNextArg ==
    /\ caller = "main"
    /\ pc = "done"
    /\ prev = <<>>
    /\ prev' = <<[dom |-> dom, ret |-> ret, lookups |-> lookups]>>
    /\ dom' = WWW(dom)
    /\ pc' = "call"
    /\ domain' = <<>>
    /\ r' = NewResult(<<>>)
    /\ err' = NoError
    /\ nss' = <<>>
    /\ mxs' = <<>>
    /\ idx' = 0
    /\ lookups' = <<>>
    /\ ret' = [r |-> NilResult, err |-> NoError]
    /\ UNCHANGED <<caller, mode, verbose, out, bvars>>

\* The resolver is asked the same question by "host" and "www" lookups of one name.
Question(op) == IF op \in {"host", "www"} THEN "LookupHost" ELSE op

\* Two lookups that ask the same question got the same answer.
SameAnswer(a, b) ==
    (Question(a.op) = Question(b.op) /\ a.name = b.name)
    => (a.err = b.err /\ a.addrs = b.addrs)

\* The answers the resolver gives while two names are resolved.
PairAnswer(l) ==
    /\ l.err \in {NoError, ErrNotFound, ErrTimeout}
    /\ IF l.op \in {"LookupNS", "LookupMX"}
       THEN Len(l.addrs) <= MaxPairRecs
       ELSE l.addrs # <<"2001:db8::1">>

\* The lookups made so far, those of the first argument included.
AllLookups == (IF prev = <<>> THEN <<>> ELSE prev[1].lookups) \o lookups

\* One DNS state: the last lookup got the answer every earlier lookup with the
\* same question got.
FixedDNS ==
    lookups # <<>>
    => /\ PairAnswer(lookups[Len(lookups)])
       /\ \A k \in 1..(Len(AllLookups) - 1) :
             SameAnswer(AllLookups[k], lookups[Len(lookups)])

NextPair ==
    \/ QueryDomainEnter /\ UNCHANGED <<bvars, prev>>
    \/ QueryDomainHost /\ UNCHANGED <<bvars, prev>> /\ FixedDNS'
    \/ QueryDomainWWW /\ UNCHANGED <<bvars, prev>> /\ FixedDNS'
    \/ QueryDomainNS /\ UNCHANGED <<bvars, prev>> /\ FixedDNS'
    \/ QueryDomainNSHost /\ UNCHANGED <<bvars, prev>> /\ FixedDNS'
    \/ QueryDomainMX /\ UNCHANGED <<bvars, prev>> /\ FixedDNS'
    \/ QueryDomainMXHost /\ UNCHANGED <<bvars, prev>> /\ FixedDNS'
    \/ mainNextArg

\* main with a name and "www." + that name, the DNS state not changing meanwhile.
SpecPair == InitPair /\ [][NextPair]_vars

-----------------------------------------------------------------------------
(* scanFile: the producer, the channel and the pool of workers *)

\* The input file: its first m lines.
Input(m) ==
    [k \in 1..m |-> IF k % 2 = 1 THEN <<"example", "com">>
                    ELSE <<"www", "example", "com">>]

\* What QueryDomain(d) may return to checkDom: an error, or a record (here one of
\* an IPv4-only domain).
QueryOutcomes(d) ==
    { [r |-> NilResult, err |-> Errorf("LookupNS failed: domain has no NS", NoError)],
      [r |-> <<[NewResult(TrimPrefix(d)) EXCEPT !.Host4 = <<"192.0.2.1">>,
                                                 !.NS4 = <<"192.0.2.1">>]>>,
       err |-> NoError] }

Workers == 1..numjobs

InitBatch ==
    /\ caller = "scanFile"
    /\ mode \in Modes
    /\ verbose = FALSE
    /\ dom = <<>>
    /\ pc = "none"
    /\ domain = <<>>
    /\ r = NewResult(<<>>)
    /\ err = NoError
    /\ nss = <<>>
    /\ mxs = <<>>
    /\ idx = 0
    /\ lookups = <<>>
    /\ ret = [r |-> NilResult, err |-> NoError]
    /\ out = <<>>
    /\ \E m \in 0..MaxLines : lines = Input(m)
    /\ numjobs \in 0..MaxJobs
    /\ spc = "start"
    /\ wn = 1
    /\ scanned = 0
    /\ stext = <<>>
    /\ domains = <<>>
    /\ closed = FALSE
    /\ wg = 0
    /\ wpc = [k \in Workers |-> "none"]
    /\ wdom = [k \in Workers |-> <<>>]
    /\ log = <<>>
    /\ prev = <<>>

\* if numjobs <= 0 { log.Fatal(...) }; domains := make(chan string, numjobs)
scanFileStart ==
    /\ spc = "start"
    /\ spc' = IF numjobs <= 0 THEN "fatal" ELSE "spawn"
    /\ UNCHANGED <<out, lines, numjobs, wn, scanned, stext, domains, closed, wg, wpc,
                   wdom, log>>

\* one turn of "for w := 1; w <= numjobs; w++": wg.Add(1); go func(...)
scanFileSpawn ==
    /\ spc = "spawn"
    /\ IF wn <= numjobs
       THEN /\ wg' = wg + 1
            /\ wpc' = [wpc EXCEPT ![wn] = "range"]
            /\ wn' = wn + 1
            /\ spc' = "spawn"
       ELSE /\ spc' = "scan"
            /\ UNCHANGED <<wg, wpc, wn>>
    /\ UNCHANGED <<out, lines, numjobs, scanned, stext, domains, closed, wdom, log>>

\* scan.Scan() is true: s := scan.Text()
scanFileScan ==
    /\ spc = "scan"
    /\ scanned < Len(lines)
    /\ scanned' = scanned + 1
    /\ stext' = <<[n |-> scanned + 1, text |-> lines[scanned + 1]]>>
    /\ spc' = "send"
    /\ UNCHANGED <<out, lines, numjobs, wn, domains, closed, wg, wpc, wdom, log>>

\* A faulty variant of CanSend: a send never waits for room in the buffer.
CanSendAlways(buf, cap) == TRUE

\* domains <- s goes on when the buffer holds fewer than cap(domains) lines
CanSend(buf, cap) == Len(buf) < cap

\* domains <- s
scanFileSend ==
    /\ spc = "send"
    /\ CanSend(domains, numjobs)
    /\ domains' = Append(domains, stext[1])
    /\ stext' = <<>>
    /\ spc' = "scan"
    /\ UNCHANGED <<out, lines, numjobs, wn, scanned, closed, wg, wpc, wdom, log>>

\* scan.Scan() is false: close(domains)
scanFileClose ==
    /\ spc = "scan"
    /\ scanned >= Len(lines)
    /\ closed' = TRUE
    /\ spc' = "wait"
    /\ UNCHANGED <<out, lines, numjobs, wn, scanned, stext, domains, wg, wpc, wdom, log>>

\* wg.Wait() returns when the counter is zero
WaitDone(n) == n = 0

\* wg.Wait()
scanFileWait ==
    /\ spc = "wait"
    /\ WaitDone(wg)
    /\ spc' = "returned"
    /\ UNCHANGED <<out, lines, numjobs, wn, scanned, stext, domains, closed, wg, wpc,
                   wdom, log>>

\* "for dom := range doms" takes the next line
workerRecv(k) ==
    /\ wpc[k] = "range"
    /\ domains # <<>>
    /\ wdom' = [wdom EXCEPT ![k] = <<Head(domains)>>]
    /\ domains' = Tail(domains)
    /\ wpc' = [wpc EXCEPT ![k] = "check"]
    /\ UNCHANGED <<out, lines, numjobs, spc, wn, scanned, stext, closed, wg, log>>

\* checkDom(dom, mode) in the body of the range loop
workerCheckDom(k) ==
    /\ wpc[k] = "check"
    /\ \E q \in QueryOutcomes(wdom[k][1].text) :
          /\ out' = out \o checkDom(wdom[k][1].text, mode, q)
          /\ log' = Append(log, [n |-> wdom[k][1].n, worker |-> k,
                                 ok |-> q.err = NoError])
          /\ wpc' = [wpc EXCEPT ![k] = "range"]
    /\ wdom' = [wdom EXCEPT ![k] = <<>>]
    /\ UNCHANGED <<lines, numjobs, spc, wn, scanned, stext, domains, closed, wg>>

\* A faulty variant of RangeEnds: the loop ends as soon as the channel is empty.
RangeEndsWhenEmpty(buf, cl) == buf = <<>>

\* the range loop ends when the channel is closed and drained
RangeEnds(buf, cl) == buf = <<>> /\ cl

\* the range loop ends; defer wg.Done()
workerExit(k) ==
    /\ wpc[k] = "range"
    /\ RangeEnds(domains, closed)
    /\ wpc' = [wpc EXCEPT ![k] = "exited"]
    /\ wg' = wg - 1
    /\ UNCHANGED <<out, lines, numjobs, spc, wn, scanned, stext, domains, closed, wdom,
                   log>>

NextBatch ==
    \/ scanFileStart /\ UNCHANGED <<qvars, prev>>
    \/ scanFileSpawn /\ UNCHANGED <<qvars, prev>>
    \/ scanFileScan /\ UNCHANGED <<qvars, prev>>
    \/ scanFileSend /\ UNCHANGED <<qvars, prev>>
    \/ scanFileClose /\ UNCHANGED <<qvars, prev>>
    \/ scanFileWait /\ UNCHANGED <<qvars, prev>>
    \/ \E k \in Workers : workerRecv(k) /\ UNCHANGED <<qvars, prev>>
    \/ \E k \in Workers : workerCheckDom(k) /\ UNCHANGED <<qvars, prev>>
    \/ \E k \in Workers : workerExit(k) /\ UNCHANGED <<qvars, prev>>

\* A batch run: scanFile on an input of at most MaxLines lines.
SpecBatch == InitBatch /\ [][NextBatch]_vars

-----------------------------------------------------------------------------
(* Properties of QueryDomain and of its callers, checked under Spec *)

Succeeded == pc = "done" /\ ret.r # NilResult
Failed == pc = "done" /\ ret.r = NilResult
LastLookup == lookups[Len(lookups)]
Lookups(op) == {k \in 1..Len(lookups) : lookups[k].op = op}

\* The error QueryDomain is expected to return for a message and a cause.
Expected(msg, cause) ==
    [typ |-> "errorString", IsNotFound |-> FALSE, msg |-> msg, cause |-> cause]

\* The concatenation, in lookup order, of the IPv4 (IPv6) lists of the lookups op.
RECURSIVE Gathered(_, _, _)
Gathered(h, op, six) ==
    IF h = <<>> THEN <<>>
    ELSE (IF Head(h).op # op THEN <<>>
          ELSE IF six THEN Head(h).ipv6 ELSE Head(h).ipv4)
         \o Gathered(Tail(h), op, six)

Count(s, l) == Cardinality({k \in 1..Len(l) : l[k] = s})
SameBag(a, b) ==
    /\ Len(a) = Len(b)
    /\ \A k \in 1..Len(a) : Count(a[k], a) = Count(a[k], b)
Sorted(l) == \A i, j \in 1..Len(l) : i < j => ~StrLess(l[j], l[i])
Elems(l) == {l[k] : k \in 1..Len(l)}

\* C2: a name-server lookup that yields zero servers, by an empty answer or by a
\* tolerated "not found", makes QueryDomain fail with the "no name servers" error
\* at once; a returned record always rests on at least one name server.
C2_NoNameServers ==
    /\ \A k \in Lookups("LookupNS") :
          (Len(lookups[k].addrs) = 0 /\ lookups[k].err \in {NoError, ErrNotFound})
          => /\ Failed
             /\ k = Len(lookups)
             /\ ret.err = Expected("LookupNS failed: domain has no NS", "")
    /\ Succeeded => \E k \in Lookups("LookupNS") : Len(lookups[k].addrs) > 0

\* C2 witness: the apex has addresses, the NS lookup is "not found", the call failed.
C2_Witness ==
    /\ Failed
    /\ LastLookup.op = "LookupNS"
    /\ LastLookup.err = ErrNotFound
    /\ r.Host4 # <<>>
    /\ ret.err.msg = "LookupNS failed: domain has no NS"

\* C3 as stated: a failure of any kind resolving one mail exchanger is tolerated
\* (no addresses from it, no abort because of it).
C3_AnyMXHostFailureTolerated ==
    \A k \in Lookups("mxhost") :
        lookups[k].err # NoError
        => /\ lookups[k].ipv4 = <<>> /\ lookups[k].ipv6 = <<>>
           /\ ~(Failed /\ k = Len(lookups))

\* C3 amended: a "not found" failure resolving one mail exchanger is tolerated (it
\* adds no address, the remaining exchangers are still resolved, the call does not
\* abort because of it); any other failure aborts QueryDomain with the
\* "QueryHost for MX failed" error.
C3_MXHostNotFoundTolerated ==
    /\ \A k \in Lookups("mxhost") :
          /\ lookups[k].err = ErrNotFound
             => /\ lookups[k].ipv4 = <<>> /\ lookups[k].ipv6 = <<>>
                /\ ~(Failed /\ k = Len(lookups))
                /\ (k = Len(lookups) /\ pc # "done") => pc = "mxhost"
          /\ lookups[k].err \notin {NoError, ErrNotFound}
             => /\ Failed
                /\ k = Len(lookups)
                /\ ret.err = Expected("QueryHost for MX failed", lookups[k].err.msg)
    /\ Succeeded
       => /\ Cardinality(Lookups("mxhost")) = Len(mxs)
          /\ SameBag(ret.r[1].MX4, Gathered(lookups, "mxhost", FALSE))
          /\ SameBag(ret.r[1].MX6, Gathered(lookups, "mxhost", TRUE))

\* C3 witness: the first exchanger is "not found", the second one is resolved and
\* gives addresses, and the record is returned.
C3_Witness ==
    /\ Succeeded
    /\ \E k \in Lookups("mxhost") :
          /\ lookups[k].err = ErrNotFound
          /\ k < Len(lookups)
          /\ lookups[k + 1].op = "mxhost"
          /\ lookups[k + 1].ipv4 # <<>>
          /\ ret.r[1].MX4 = lookups[k + 1].ipv4

StageMessage(op) ==
    CASE op = "host" -> "QueryHost failed"
      [] op = "www" -> "QueryHost (www) failed"
      [] op = "LookupMX" -> "LookupMX failed"

\* C4: for the apex, www and MX-record lookups, "not found" is an empty result and
\* the next stage follows; any other failure fails QueryDomain with the error of
\* that stage, and no lookup is made after it.
C4_NotFoundTolerated ==
    \A k \in Lookups("host") \cup Lookups("www") \cup Lookups("LookupMX") :
        LET l == lookups[k] IN
        /\ l.err = ErrNotFound
           => /\ Len(l.addrs) = 0 /\ l.ipv4 = <<>> /\ l.ipv6 = <<>>
              /\ l.op = "host" => /\ r.Host4 = <<>> /\ r.Host6 = <<>>
                                  /\ IF k = Len(lookups) THEN pc = "www"
                                     ELSE lookups[k + 1].op = "www"
              /\ l.op = "www" => /\ r.WWW4 = <<>> /\ r.WWW6 = <<>>
                                 /\ IF k = Len(lookups) THEN pc = "ns"
                                    ELSE lookups[k + 1].op = "LookupNS"
              /\ l.op = "LookupMX" => /\ Succeeded
                                      /\ ret.r[1].MX4 = <<>> /\ ret.r[1].MX6 = <<>>
        /\ l.err \notin {NoError, ErrNotFound}
           => /\ Failed
              /\ k = Len(lookups)
              /\ ret.err = Expected(StageMessage(l.op), l.err.msg)

\* C4 witness: apex, www and MX records are all "not found" and the record is
\* returned.
C4_Witness ==
    /\ Succeeded
    /\ lookups[1].err = ErrNotFound
    /\ lookups[2].err = ErrNotFound
    /\ LastLookup.op = "LookupMX"
    /\ LastLookup.err = ErrNotFound

\* C5: a failure of any kind resolving any one name server fails QueryDomain; on
\* success every name server was resolved and the NS lists hold exactly the
\* addresses of the per-server lists, each as often as the servers gave it.
C5_NameServerHosts ==
    /\ \A k \in Lookups("nshost") :
          lookups[k].err # NoError
          => /\ Failed
             /\ k = Len(lookups)
             /\ ret.err = Expected("QueryHost for NS failed", lookups[k].err.msg)
    /\ Succeeded
       => /\ Cardinality(Lookups("nshost")) = Len(nss)
          /\ SameBag(ret.r[1].NS4, Gathered(lookups, "nshost", FALSE))
          /\ SameBag(ret.r[1].NS6, Gathered(lookups, "nshost", TRUE))

\* C5 witness: two name servers give the same address and the record holds it
\* twice.
C5_Witness ==
    /\ Succeeded
    /\ Len(nss) = 2
    /\ ret.r[1].NS4 = <<"192.0.2.1", "192.0.2.1">>

Tolerable(l) ==
    CASE l.op \in {"host", "www", "LookupMX", "mxhost"} -> l.err \in {NoError, ErrNotFound}
      [] l.op = "LookupNS" -> l.err \in {NoError, ErrNotFound} /\ Len(l.addrs) > 0
      [] l.op = "nshost" -> l.err = NoError

\* The lookups of a complete resolution, in order.
AllStages ==
    <<"host", "www", "LookupNS">> \o [k \in 1..Len(nss) |-> "nshost"]
    \o <<"LookupMX">> \o [k \in 1..Len(mxs) |-> "mxhost"]

\* C6: QueryDomain ends with a record and no error, or with an error and no
\* record; a record is returned only after every stage was passed under the
\* tolerance rules, and a fatal failure gives no record whatever was filled in.
C6_RecordOrError ==
    /\ pc = "done" => \/ ret.r # NilResult /\ ret.err = NoError
                      \/ ret.r = NilResult /\ ret.err # NoError
    /\ pc # "done" => ret.r = NilResult /\ ret.err = NoError
    /\ Succeeded
       => /\ [k \in 1..Len(lookups) |-> lookups[k].op] = AllStages
          /\ \A k \in 1..Len(lookups) : Tolerable(lookups[k])
          /\ ret.r[1] = r
    /\ (\E k \in 1..Len(lookups) : ~Tolerable(lookups[k])) => Failed

\* C6 witness: the call failed on a name server although apex and www were filled.
C6_Witness ==
    /\ Failed
    /\ LastLookup.op = "nshost"
    /\ r.Host4 # <<>>
    /\ r.WWW6 # <<>>

\* The canonical spellings of the IPv4 and of the IPv6 addresses of HostAnswers.
IPv4Strings == {"10.0.0.1", "192.0.2.1"}
IPv6Strings == {"2001:db8::1", "2001:db8::2"}

Lists4(x) == <<x.Host4, x.WWW4, x.NS4, x.MX4>>
Lists6(x) == <<x.Host6, x.WWW6, x.NS6, x.MX6>>

\* C7: the eight lists of a returned record are sorted ascending, the v4 lists
\* hold IPv4 addresses only and the v6 lists IPv6 addresses only; one host lookup
\* puts each address in at most one list and drops, without failing, an address
\* of neither family.
C7_SortedByFamily ==
    /\ Succeeded
       => /\ \A n \in 1..4 : /\ Sorted(Lists4(ret.r[1])[n])
                             /\ Sorted(Lists6(ret.r[1])[n])
                             /\ Elems(Lists4(ret.r[1])[n]) \subseteq IPv4Strings
                             /\ Elems(Lists6(ret.r[1])[n]) \subseteq IPv6Strings
    /\ \A k \in 1..Len(lookups) :
          lookups[k].op \in {"host", "www", "nshost", "mxhost"}
          => LET l == lookups[k]
                 bad == {j \in 1..Len(l.addrs) : l.addrs[j] = "not-an-address"}
             IN  /\ Elems(l.ipv4) \cap Elems(l.ipv6) = {}
                 /\ Len(l.ipv4) + Len(l.ipv6) = Len(l.addrs) - Cardinality(bad)
                 /\ l.err = NoError => ~(Failed /\ k = Len(lookups))

\* C7 witness: a record whose name servers gave an unsorted answer holding a
\* string that is no address.
C7_Witness ==
    /\ Succeeded
    /\ \E k \in Lookups("nshost") : "not-an-address" \in Elems(lookups[k].addrs)
    /\ Len(ret.r[1].NS4) >= 2
    /\ Gathered(lookups, "nshost", FALSE) # ret.r[1].NS4

ScoreLine == out[Len(out)]
Bit(b) == IF b THEN 1 ELSE 0

\* C8: the score main prints for a record is a run of "*" whose length is
\* 1 for apex IPv6 + 1 for dual-stack MX + 1 for dual-stack www + 2 for NS IPv6.
C8_RankLength ==
    (Succeeded /\ caller = "main")
    => LET x == ret.r[1]
           score == ScoreLine.args[2]
       IN  /\ ScoreLine.fmt = "%s : %s"
           /\ \A k \in 1..Len(score) : score[k] = "*"
           /\ Len(score) = Bit(x.Host6 # <<>>)
                           + Bit(x.MX4 # <<>> /\ x.MX6 # <<>>)
                           + Bit(x.WWW4 # <<>> /\ x.WWW6 # <<>>)
                           + 2 * Bit(x.NS6 # <<>>)
           /\ Len(score) \in 0..5

\* C8 witness: a dual-stack domain with an IPv6 name server scores five.
C8_Witness ==
    /\ Succeeded /\ caller = "main"
    /\ ScoreLine.args[2] = <<"*", "*", "*", "*", "*">>
    /\ ret.r[1].Host4 # <<>>
    /\ ret.r[1].NS4 # <<>>

SentinelEmitted ==
    \E k \in 1..Len(out) :
        out[k].fmt = "%s : %s" /\ out[k].args[2] = Sentinel

\* C9 as stated: the sentinel is emitted if and only if the resolution failed.
C9_SentinelIffFailed ==
    (pc = "done" /\ caller = "main") => (SentinelEmitted <=> Failed)

\* C9 amended: Rank gives the sentinel if and only if it is given an absent
\* record; main prints a score only for a resolution that succeeded, never the
\* sentinel, and the empty string when no condition is met; for a resolution that
\* failed it prints the error and no score.
C9_SentinelOnlyForAbsentRecord ==
    /\ pc = "done" => (Rank(ret.r) = Sentinel <=> ret.r = NilResult)
    /\ (Succeeded /\ caller = "main")
       => LET x == ret.r[1] IN
          /\ ScoreLine = Line("%s : %s", <<x.Domain, Rank(ret.r)>>)
          /\ ~SentinelEmitted
          /\ (x.Host6 = <<>> /\ x.NS6 = <<>> /\ ~(x.MX4 # <<>> /\ x.MX6 # <<>>)
              /\ ~(x.WWW4 # <<>> /\ x.WWW6 # <<>>)) => ScoreLine.args[2] = <<>>
    /\ (Failed /\ caller = "main")
       => out = <<Line("%s: error %s", <<dom, ret.err>>)>>

\* C9 witness: a resolution that succeeds and meets no condition prints the empty
\* score.
C9_Witness ==
    /\ Succeeded /\ caller = "main"
    /\ ScoreLine.args[2] = <<>>
    /\ ret.r[1].Host4 # <<>>

\* C10: in mode 4 (6) a line is printed if and only if the domain has an apex or
\* www IPv4 (IPv6) address and no apex or www IPv6 (IPv4) address, and the line is
\* the domain name alone.
C10_FilterModes ==
    (pc = "done" /\ caller = "checkDom" /\ mode \in {4, 6})
    => LET ip4 == Succeeded /\ Len(ret.r[1].Host4) + Len(ret.r[1].WWW4) > 0
           ip6 == Succeeded /\ Len(ret.r[1].Host6) + Len(ret.r[1].WWW6) > 0
           only == IF mode = 4 THEN ip4 /\ ~ip6 ELSE ip6 /\ ~ip4
       IN  /\ out # <<>> <=> (Succeeded /\ only)
           /\ out # <<>> => out = <<Line("%s", <<domain>>)>>

-----------------------------------------------------------------------------
(* Properties of two calls of QueryDomain, checked under SpecPair *)

\* A name without its leading "www." label, if it has one.
Stripped(n) == IF Len(n) >= 2 /\ n[1] = "www" THEN SubSeq(n, 2, Len(n)) ELSE n

\* The second call has returned: QueryDomain("www." + X) after QueryDomain(X).
BothDone == prev # <<>> /\ pc = "done"

\* C13 as stated: for every name X and one DNS state, QueryDomain("www." + X) and
\* QueryDomain(X) return the same record, or both fail.
C13_SameOutcomeForEveryName ==
    BothDone => ret.r = prev[1].ret.r

\* C13: for every name X that does not itself begin with the label "www." and one
\* DNS state, QueryDomain("www." + X) and QueryDomain(X) return the same record
\* (domain field and address lists) or both fail; for every name given, the
\* domain field of a returned record is the name with one leading "www." label
\* stripped, the apex lookup is made on that name and the www lookup on "www." +
\* that name.
C13_SameOutcomeWithWWW ==
    /\ (BothDone /\ prev[1].dom[1] # "www")
       => /\ ret.r = prev[1].ret.r
          /\ ret.err = prev[1].ret.err
          /\ lookups = prev[1].lookups
    /\ Succeeded => ret.r[1].Domain = Stripped(dom)
    /\ Len(lookups) >= 1
       => lookups[1].op = "host" /\ lookups[1].name = Stripped(dom)
    /\ Len(lookups) >= 2
       => lookups[2].op = "www" /\ lookups[2].name = <<"www">> \o Stripped(dom)

\* C13 witness: example.com and then www.example.com gave one and the same record,
\* with apex and www addresses.
C13_Witness ==
    /\ BothDone
    /\ prev[1].dom = <<"example", "com">>
    /\ dom = <<"www", "example", "com">>
    /\ ret.r # NilResult
    /\ ret.r = prev[1].ret.r
    /\ ret.r[1].Domain = <<"example", "com">>
    /\ ret.r[1].Host4 # <<>> /\ ret.r[1].WWW6 # <<>>

-----------------------------------------------------------------------------
(* Properties of checkDom, checked under SpecCheckDom *)

C12_CountsMode ==
    (pc = "done" /\ caller = "checkDom" /\ mode \notin {4, 6, 1})
    => /\ Len(out) = 1
       /\ Succeeded
          => out[1] = Line("%s, %d, %d, %d, %d",
                           <<ret.r[1].Domain,
                             Len(ret.r[1].Host4), Len(ret.r[1].WWW4),
                             Len(ret.r[1].Host6), Len(ret.r[1].WWW6)>>)
       /\ Failed => out[1] = Line("%s, (%s)", <<dom, ret.err>>)

\* C12 witness: the four counts differ enough to show their order: two apex IPv4
\* addresses, one apex IPv6 address, no www IPv4 address, one www IPv6 address.
C12_Witness ==
    /\ Succeeded /\ caller = "checkDom" /\ mode = 0
    /\ out = <<Line("%s, %d, %d, %d, %d", <<<<"example", "com">>, 2, 0, 1, 1>>)>>

-----------------------------------------------------------------------------
(* Properties of scanFile, checked under SpecBatch *)

Calls(n) == {i \in 1..Len(log) : log[i].n = n}

\* C1: every input line is handed to checkDom at most once at any time and exactly
\* once when scanFile returns; a domain that fails does not stop its worker; and
\* scanFile returns only when every line was processed and every worker has left.
C1_EachLineOnce ==
    /\ \A n \in 1..Len(lines) : Cardinality(Calls(n)) <= 1
    /\ \A i \in 1..Len(log) : log[i].n \in 1..Len(lines) /\ log[i].worker \in Workers
    /\ \A k \in Workers : wpc[k] \in {"none", "range", "check", "exited"}
    /\ spc = "returned"
       => /\ \A n \in 1..Len(lines) : Cardinality(Calls(n)) = 1
          /\ \A k \in Workers : wpc[k] = "exited" /\ wdom[k] = <<>>
          /\ domains = <<>> /\ stext = <<>>

\* C1 witness: scanFile has returned, three lines were processed by a pool of two,
\* and the worker whose domain failed went on to process a later line.
C1_Witness ==
    /\ spc = "returned"
    /\ Len(lines) = 3
    /\ numjobs = 2
    /\ \E i, j \in 1..Len(log) :
          /\ i < j
          /\ log[i].worker = log[j].worker
          /\ ~log[i].ok

\* The workers that have been started and have not left their range loop.
Running == {k \in Workers : wpc[k] \in {"range", "check"}}

\* The workers inside checkDom.
Resolving == {k \in Workers : wpc[k] = "check"}

\* C14: in a batch run with numjobs >= 1 the channel never holds more than numjobs
\* lines and at most numjobs domains are being resolved at once; when the channel
\* holds numjobs lines the send of the producer cannot go on, so that the producer
\* holds at most the one line it is sending beyond those in the channel; and from
\* the end of the start-up loop until the channel is closed and empty all the
\* numjobs workers are running, none having left before the close.
C14_BackPressure ==
    numjobs >= 1
    => /\ Len(domains) <= numjobs
       /\ Cardinality(Resolving) <= numjobs
       /\ (spc = "send" /\ Len(domains) >= numjobs) => ~ENABLED scanFileSend
       /\ Len(stext) <= 1
       /\ stext # <<>> <=> spc = "send"
       /\ scanned = Len(log) + Cardinality(Resolving) + Len(domains) + Len(stext)
       /\ ~closed => \A k \in Workers : wpc[k] # "exited"
       /\ (spc \in {"scan", "send", "wait"} /\ ~(closed /\ domains = <<>>))
          => Cardinality(Running) = numjobs

\* C14 witness: every worker is resolving a domain, the channel is full and the
\* producer waits with the next line in its hand.
C14_Witness ==
    /\ numjobs >= 1
    /\ spc = "send" /\ stext # <<>>
    /\ Len(domains) = numjobs
    /\ Cardinality(Resolving) = numjobs
    /\ ~ENABLED scanFileSend

====
